---- MODULE Spec2Model ----
(***************************************************************************)
(* A model of sym-ts: canonical construction of symbolic expressions       *)
(* (Number, Symbol, Add, Mul, Pow), their structural hash, comparison and   *)
(* equality, and substitution-based numeric evaluation.                     *)
(*                                                                         *)
(* Expressions are records with the fields of the classes in               *)
(* src/src/expressions/core.ts: type, hash, args, and the leaf payloads     *)
(* value (SymNumber), name and symbolId (SymSymbol).  A 32-bit hash is the  *)
(* pair <<hi, lo>> of its 16-bit halves.  Number values are IEEE doubles:   *)
(* the model holds the integers of magnitude up to MaxVal, on which the     *)
(* arithmetic of doubles is exact, and the doubles within Window of 2^53,   *)
(* where the doubles are 2 apart and a sum is rounded to the nearest of     *)
(* them, and NaN, which no === finds equal to itself.  Any other value (a   *)
(* fraction, a larger magnitude) is the token Inexact, and no call that     *)
(* produces it is taken.                                                    *)
(***************************************************************************)
EXTENDS Integers, Sequences, FiniteSets, TLC

VARIABLES stack, last, nameToId, idToName, nextId, session, backend

vars == <<stack, last, nameToId, idToName, nextId, session, backend>>

(***************************** bounds **************************************)
\* operands waiting on the caller's side
MaxStack == 3
\* expression nodes held by the caller at once
MaxNodes == 6
\* largest magnitude of a Number the caller builds with
MaxNum == 2
\* largest magnitude the model's integer arithmetic holds
MaxVal == 1000
\* distance from 2^53 of the doubles the model holds
Window == 6
\* backend objects one engine allocates
MaxBackends == 12

Names == {"x", "y"}
\* two names whose Symbol nodes have the same hash:
\* fastHash("Symbol:o5wY") = fastHash("Symbol:sJiP") = 1228645
CollidingNames == {"o5wY", "sJiP"}
NumInputs == {-1, 0, 1, 2}
SubstVals == {2, 3}

(***************************** numbers *************************************)
Inexact == MaxVal + 1

\* the integer that stands for the double 2^53: 2^53 + k is held as AtTwoTo53 + k
AtTwoTo53 == 100000

\* the integer that stands for the double NaN, above every value and every
\* difference of values of the model
NaN == 3 * AtTwoTo53

\* the integer that stands for a value that is not a number: a function, or the
\* string that + makes of one
NotNumber == 4 * AtTwoTo53

\* ToNumber of a function or of such a string is NaN
ToNumber(v) == IF v = NotNumber THEN NaN ELSE v

IsBig(n) == n >= AtTwoTo53 - Window /\ n <= AtTwoTo53 + Window

Abs(n) == IF n < 0 THEN -n ELSE n

Fit(n) == IF Abs(n) > MaxVal THEN Inexact ELSE n

\* the double nearest to 2^53 + m, ties to the even significand, as its
\* distance from 2^53: below 2^53 every integer is a double, from 2^53 on
\* every second one
RoundToDouble(m) ==
  IF m <= 0 \/ (m % 2) = 0 THEN m
  ELSE IF (((m - 1) \div 2) % 2) = 0 THEN m - 1
  ELSE m + 1

\* the sum of a double near 2^53 and a small integer, m its exact distance from 2^53
SumNearTwoTo53(m) ==
  IF Abs(m) > Window \/ RoundToDouble(m) > Window THEN Inexact
  ELSE AtTwoTo53 + RoundToDouble(m)

\* a + b of the code
Plus(a, b) ==
  IF a = NotNumber \/ b = NotNumber THEN NotNumber
  ELSE IF a = NaN \/ b = NaN THEN NaN
  ELSE IF a = Inexact \/ b = Inexact THEN Inexact
  ELSE IF IsBig(a) /\ IsBig(b) THEN Inexact
  ELSE IF IsBig(a) \/ IsBig(b) THEN SumNearTwoTo53(a + b - AtTwoTo53)
  ELSE Fit(a + b)

\* a * b of the code
Times(a, b) ==
  IF ToNumber(a) = NaN \/ ToNumber(b) = NaN THEN NaN
  ELSE IF a = Inexact \/ b = Inexact THEN Inexact
  ELSE IF IsBig(a) THEN (IF b = 1 THEN a ELSE IF b = 0 THEN 0 ELSE Inexact)
  ELSE IF IsBig(b) THEN (IF a = 1 THEN b ELSE IF a = 0 THEN 0 ELSE Inexact)
  ELSE Fit(a * b)

RECURSIVE PowNat(_, _)
PowNat(b, e) == IF e = 0 THEN 1 ELSE Times(b, PowNat(b, e - 1))

\* Math.pow on the values of the model: a negative exponent gives an integer
\* only for the bases 1 and -1; Math.pow(NaN, 0) is 1
MathPow(b, e) ==
  IF ToNumber(e) = NaN THEN NaN
  ELSE IF ToNumber(b) = NaN THEN (IF e = 0 THEN 1 ELSE NaN)
  ELSE IF b = Inexact \/ e = Inexact THEN Inexact
  ELSE IF b = 1 THEN 1
  ELSE IF b = -1 THEN (IF (e % 2) = 0 THEN 1 ELSE -1)
  ELSE IF e = 0 THEN 1
  ELSE IF e < 0 THEN Inexact
  ELSE IF b = 0 THEN 0
  ELSE IF e > 31 THEN Inexact
  ELSE PowNat(b, e)

(***************************** hashing *************************************)
Half == 65536

RECURSIVE BitXorBits(_, _)
BitXorBits(a, b) ==
  IF a = 0 THEN b
  ELSE IF b = 0 THEN a
  ELSE (((a % 2) + (b % 2)) % 2) + 2 * BitXorBits(a \div 2, b \div 2)

\* a ^ b on 4-bit operands, tabulated
XorNibble == [a \in 0..15 |-> [b \in 0..15 |-> BitXorBits(a, b)]]

\* a ^ b on 16-bit operands
BitXor(a, b) ==
  XorNibble[a % 16][b % 16]
  + 16 * XorNibble[(a \div 16) % 16][(b \div 16) % 16]
  + 256 * XorNibble[(a \div 256) % 16][(b \div 256) % 16]
  + 4096 * XorNibble[a \div 4096][b \div 4096]

\* 2166136261 = 33052 * 65536 + 40389
OffsetHi == 33052
OffsetLo == 40389
\* 16777619 = 256 * 65536 + 403
PrimeHi == 256
PrimeLo == 403

FnvOffset == <<OffsetHi, OffsetLo>>

\* Math.imul(h, 16777619) that loses the carry out of the low half
ImulWithoutCarry(h) ==
  <<((h[1] * PrimeLo) + (h[2] * PrimeHi)) % Half, (h[2] * PrimeLo) % Half>>

\* Math.imul(h, 16777619), kept to 32 bits
Imul(h) ==
  LET low == h[2] * PrimeLo
  IN  <<((h[1] * PrimeLo) + (h[2] * PrimeHi) + (low \div Half)) % Half, low % Half>>

\* hash ^= c; hash = Math.imul(hash, 16777619), c a UTF-16 code unit
FnvStepCode(h, c) == Imul(<<h[1], BitXor(h[2], c)>>)

\* result ^= g; result = Math.imul(result, 16777619), g a 32-bit hash
FnvStepHash(h, g) == Imul(<<BitXor(h[1], g[1]), BitXor(h[2], g[2])>>)

\* the loop of fastHash over data[lo..hi], taken by halves; the hash after
\* the left half is computed before the right half starts
RECURSIVE FoldCodes(_, _, _, _)
FoldCodesRest(h, codes, lo, hi) ==
  IF Len(h) = 2 THEN FoldCodes(h, codes, lo, hi) ELSE h
FoldCodes(h, codes, lo, hi) ==
  IF lo > hi THEN h
  ELSE IF lo = hi THEN FnvStepCode(h, codes[lo])
  ELSE FoldCodesRest(FoldCodes(h, codes, lo, (lo + hi) \div 2), codes,
                     ((lo + hi) \div 2) + 1, hi)

fastHash(codes) == FoldCodes(FnvOffset, codes, 1, Len(codes))

RECURSIVE FoldHashes(_, _, _)
FoldHashes(h, hashes, i) ==
  IF i > Len(hashes) THEN h ELSE FoldHashes(FnvStepHash(h, hashes[i]), hashes, i + 1)

combineHashes(hashes) == FoldHashes(FnvOffset, hashes, 1)

(* the UTF-16 code units of the strings the code hashes *)
TypeCodes(t) ==
  CASE t = "Number" -> <<78, 117, 109, 98, 101, 114>>
    [] t = "Zero" -> <<90, 101, 114, 111>>
    [] t = "One" -> <<79, 110, 101>>
    [] t = "NegativeOne" -> <<78, 101, 103, 97, 116, 105, 118, 101, 79, 110, 101>>
    [] t = "Symbol" -> <<83, 121, 109, 98, 111, 108>>
    [] t = "Add" -> <<65, 100, 100>>
    [] t = "Mul" -> <<77, 117, 108>>
    [] t = "Pow" -> <<80, 111, 119>>

NameCodes(n) ==
  CASE n = "x" -> <<120>>
    [] n = "y" -> <<121>>
    [] n = "z" -> <<122>>
    [] n = "constructor" -> <<99, 111, 110, 115, 116, 114, 117, 99, 116, 111, 114>>
    [] n = "o5wY" -> <<111, 53, 119, 89>>
    [] n = "sJiP" -> <<115, 74, 105, 80>>

RECURSIVE Digits(_)
Digits(n) == IF n < 10 THEN <<48 + n>> ELSE Digits(n \div 10) \o <<48 + (n % 10)>>

\* the decimal digits of 2^53 + k: 2^53 is 9007199254740992
DigitsNearTwoTo53(k) ==
  <<57, 48, 48, 55, 49, 57, 57, 50, 53, 52, 55, 52>>
  \o <<48 + ((992 + k) \div 1000), 48 + (((992 + k) \div 100) % 10),
       48 + (((992 + k) \div 10) % 10), 48 + ((992 + k) % 10)>>

\* `${value}` for an integer value, and for NaN
NumberCodes(v) ==
  IF v = NaN THEN <<78, 97, 78>>
  ELSE IF IsBig(v) THEN DigitsNearTwoTo53(v - AtTwoTo53)
  ELSE IF v < 0 THEN <<45>> \o Digits(-v)
  ELSE Digits(v)

Colon == <<58>>

(***************************** the data model ******************************)
TYPE_ORDER(t) ==
  CASE t = "Zero" -> 0
    [] t = "One" -> 1
    [] t = "NegativeOne" -> 2
    [] t = "Number" -> 3
    [] t = "Symbol" -> 4
    [] t = "Pow" -> 5
    [] t = "Mul" -> 6
    [] t = "Add" -> 7

\* an expression object; ref is the identity of the object: "new" for an
\* object a constructor call allocates, the constant's name for the three
\* objects the module allocates once at load time
Node(t, h, as, v, n, id) ==
  [type |-> t, hash |-> h, args |-> as, value |-> v, name |-> n, symbolId |-> id,
   ref |-> "new"]

RECURSIVE MapHash(_, _)
MapHash(as, i) == IF i > Len(as) THEN <<>> ELSE <<as[i].hash>> \o MapHash(as, i + 1)

Types == {"Number", "Zero", "One", "NegativeOne", "Symbol", "Add", "Mul", "Pow"}

\* fastHash(this.type), tabulated
TypeHash == [t \in Types |-> fastHash(TypeCodes(t))]

\* BaseExpression.computeHash
computeHash(t, as) ==
  IF Len(as) = 0 THEN TypeHash[t]
  ELSE combineHashes(<<TypeHash[t]>> \o MapHash(as, 1))

\* the SymNumber constructor without its NegativeOne case
NumberNodeNoNegativeOne(value) ==
  LET t == IF value = 0 THEN "Zero"
           ELSE IF value = 1 THEN "One"
           ELSE "Number"
  IN  Node(t, fastHash(TypeCodes(t) \o Colon \o NumberCodes(value)), <<>>, value, "", 0)

\* the SymNumber constructor
NumberNode(value) ==
  LET t == IF value = 0 THEN "Zero"
           ELSE IF value = 1 THEN "One"
           ELSE IF value = -1 THEN "NegativeOne"
           ELSE "Number"
  IN  Node(t, fastHash(TypeCodes(t) \o Colon \o NumberCodes(value)), <<>>, value, "", 0)

\* the SymNumber constructor on every value of the model, tabulated
NumberNodes == [value \in (-MaxVal - 1)..(MaxVal + 1) |-> NumberNode(value)]

\* the SymNumber constructor on the doubles near 2^53, tabulated
NumberNodesNearTwoTo53 ==
  [value \in (AtTwoTo53 - Window)..(AtTwoTo53 + Window) |-> NumberNode(value)]

\* new SymNumber(NaN)
NaNNode == NumberNode(NaN)

\* new SymNumber(value)
SymNumber(value) ==
  IF value = NaN THEN NaNNode
  ELSE IF IsBig(value) THEN NumberNodesNearTwoTo53[value]
  ELSE NumberNodes[value]

\* export const ZERO / ONE / NEGATIVE_ONE: one object each for the whole run
ZERO == [SymNumber(0) EXCEPT !.ref = "ZERO"]
ONE == [SymNumber(1) EXCEPT !.ref = "ONE"]
NEGATIVE_ONE == [SymNumber(-1) EXCEPT !.ref = "NEGATIVE_ONE"]

\* names that (name in substitutions) finds in every object literal, which
\* inherits them from Object.prototype
ObjectPrototypeNames == {"constructor"}

\* fastHash(`Symbol:${name}`), tabulated
SymbolHash ==
  [name \in Names \cup ObjectPrototypeNames \cup CollidingNames |->
     fastHash(TypeCodes("Symbol") \o Colon \o NameCodes(name))]

\* new SymSymbol(name), id the answer of SymbolRegistry.getId(name)
SymSymbol(name, id) == Node("Symbol", SymbolHash[name], <<>>, 0, name, id)

\* new Add(args), new Mul(args), new Pow(base, exponent)
NewAdd(as) == Node("Add", computeHash("Add", as), as, 0, "", 0)
NewMul(as) == Node("Mul", computeHash("Mul", as), as, 0, "", 0)
NewPow(base, exponent) ==
  Node("Pow", computeHash("Pow", <<base, exponent>>), <<base, exponent>>, 0, "", 0)

isNumeric(e) == e.type \in {"Number", "Zero", "One", "NegativeOne"}

(***************************** comparison **********************************)
RECURSIVE CompareCodes(_, _, _)
CompareCodes(a, b, i) ==
  IF i > Len(a) /\ i > Len(b) THEN 0
  ELSE IF i > Len(a) THEN -1
  ELSE IF i > Len(b) THEN 1
  ELSE IF a[i] # b[i] THEN a[i] - b[i]
  ELSE CompareCodes(a, b, i + 1)

\* String.prototype.localeCompare on the model's names
localeCompare(a, b) == CompareCodes(NameCodes(a), NameCodes(b), 1)

RECURSIVE compareTo(_, _)
RECURSIVE CompareArgs(_, _, _)
CompareArgs(a, b, i) ==
  IF i > Len(a.args) \/ i > Len(b.args) THEN Len(a.args) - Len(b.args)
  ELSE LET cmp == compareTo(a.args[i], b.args[i])
       IN  IF cmp # 0 THEN cmp ELSE CompareArgs(a, b, i + 1)

compareToSameType(a, b) ==
  CASE isNumeric(a) -> IF a.value = NaN \/ b.value = NaN THEN NaN ELSE a.value - b.value
    [] a.type = "Symbol" -> localeCompare(a.name, b.name)
    [] a.type = "Pow" ->
         LET baseCmp == compareTo(a.args[1], b.args[1])
         IN  IF baseCmp # 0 THEN baseCmp ELSE compareTo(a.args[2], b.args[2])
    [] OTHER -> CompareArgs(a, b, 1)

compareTo(a, b) ==
  LET typeOrder == TYPE_ORDER(a.type) - TYPE_ORDER(b.type)
  IN  IF typeOrder # 0 THEN typeOrder ELSE compareToSameType(a, b)

RECURSIVE equals(_, _)
RECURSIVE EqualArgs(_, _, _)
EqualArgs(a, b, i) ==
  IF i > Len(a.args) THEN TRUE
  ELSE IF ~equals(a.args[i], b.args[i]) THEN FALSE
  ELSE EqualArgs(a, b, i + 1)

deepEquals(a, b) ==
  CASE isNumeric(a) -> a.value = b.value /\ a.value # NaN
    [] a.type = "Symbol" -> a.symbolId = b.symbolId
    [] a.type = "Pow" -> equals(a.args[1], b.args[1]) /\ equals(a.args[2], b.args[2])
    [] OTHER -> IF Len(a.args) # Len(b.args) THEN FALSE ELSE EqualArgs(a, b, 1)

equals(a, b) == a.hash = b.hash /\ a.type = b.type /\ deepEquals(a, b)

\* Array.prototype.sort, which is stable, with comparator (a, b) => Key(a).compareTo(Key(b));
\* a NaN from the comparator counts as 0
RECURSIVE InsertSorted(_, _, _)
InsertSorted(sorted, e, byBase) ==
  IF sorted = <<>> THEN <<e>>
  ELSE LET l == sorted[Len(sorted)]
           cmp == IF byBase THEN compareTo(l.base, e.base) ELSE compareTo(l, e)
       IN  IF cmp <= 0 \/ cmp = NaN THEN Append(sorted, e)
           ELSE Append(InsertSorted(SubSeq(sorted, 1, Len(sorted) - 1), e, byBase), l)

RECURSIVE SortFrom(_, _, _, _)
SortFrom(sorted, s, i, byBase) ==
  IF i > Len(s) THEN sorted ELSE SortFrom(InsertSorted(sorted, s[i], byBase), s, i + 1, byBase)

Sort(s) == SortFrom(<<>>, s, 1, FALSE)
SortByBase(s) == SortFrom(<<>>, s, 1, TRUE)

(***************************** Pow.create **********************************)
\* Pow.create with the rules on the base tried before the rules on the exponent
PowCreateBaseFirst(base, exponent) ==
  IF base.type = "Zero" THEN ZERO
  ELSE IF base.type = "One" THEN ONE
  ELSE IF exponent.type = "Zero" THEN ONE
  ELSE IF exponent.type = "One" THEN base
  ELSE IF isNumeric(base) /\ isNumeric(exponent)
       THEN SymNumber(MathPow(base.value, exponent.value))
  ELSE NewPow(base, exponent)

\* Pow.create without its numeric power evaluation
PowCreateUnevaluated(base, exponent) ==
  IF exponent.type = "Zero" THEN ONE
  ELSE IF exponent.type = "One" THEN base
  ELSE IF base.type = "Zero" THEN ZERO
  ELSE IF base.type = "One" THEN ONE
  ELSE NewPow(base, exponent)

PowCreate(base, exponent) ==
  IF exponent.type = "Zero" THEN ONE
  ELSE IF exponent.type = "One" THEN base
  ELSE IF base.type = "Zero" THEN ZERO
  ELSE IF base.type = "One" THEN ONE
  ELSE IF isNumeric(base) /\ isNumeric(exponent)
       THEN SymNumber(MathPow(base.value, exponent.value))
  ELSE NewPow(base, exponent)

(***************************** Map<number, V> ******************************)
(* A JavaScript Map keyed by hash: a sequence of entries in insertion order; *)
(* set() on a key already present replaces the value and keeps the place.    *)
RECURSIVE MapIndex(_, _, _)
MapIndex(m, key, i) ==
  IF i > Len(m) THEN 0 ELSE IF m[i].key = key THEN i ELSE MapIndex(m, key, i + 1)

MapHas(m, key) == MapIndex(m, key, 1) # 0

MapGet(m, key) == m[MapIndex(m, key, 1)].val

MapSet(m, key, v) ==
  LET i == MapIndex(m, key, 1)
  IN  IF i = 0 THEN Append(m, [key |-> key, val |-> v])
      ELSE [m EXCEPT ![i] = [key |-> key, val |-> v]]

\* (m.get(key) || 0): an absent key, a stored 0 and a stored NaN all give 0
GetOrZero(m, key) ==
  IF MapHas(m, key) THEN (IF MapGet(m, key) = NaN THEN 0 ELSE MapGet(m, key)) ELSE 0

(***************************** Mul.create **********************************)
RECURSIVE collectFactors(_, _, _)
RECURSIVE CollectFactorsArgs(_, _, _, _)
CollectFactorsArgs(st, as, i, exponent) ==
  IF i > Len(as) THEN st
  ELSE CollectFactorsArgs(collectFactors(st, as[i], exponent), as, i + 1, exponent)

\* collectFactors without its branch for a nested Mul, which it then counts as
\* a base like any other
collectFactorsOpaqueMul(st, expr, exponent) ==
  IF expr.type = "Zero" THEN [st EXCEPT !.coeff = 0]
  ELSE IF expr.type = "One" THEN st
  ELSE IF expr.type = "Number" \/ expr.type = "NegativeOne"
       THEN [st EXCEPT !.coeff = Times(st.coeff, MathPow(expr.value, exponent))]
  ELSE IF expr.type = "Pow" /\ isNumeric(expr.args[2])
       THEN collectFactors(st, expr.args[1], Times(expr.args[2].value, exponent))
  ELSE IF expr.type = "Pow"
       THEN [st EXCEPT !.factors = Append(st.factors, expr)]
  ELSE [st EXCEPT !.baseHashToExpr = MapSet(st.baseHashToExpr, expr.hash, expr),
                  !.powers = MapSet(st.powers, expr.hash,
                                    Plus(GetOrZero(st.powers, expr.hash), exponent))]

collectFactors(st, expr, exponent) ==
  IF expr.type = "Zero" THEN [st EXCEPT !.coeff = 0]
  ELSE IF expr.type = "One" THEN st
  ELSE IF expr.type = "Number" \/ expr.type = "NegativeOne"
       THEN [st EXCEPT !.coeff = Times(st.coeff, MathPow(expr.value, exponent))]
  ELSE IF expr.type = "Mul" THEN CollectFactorsArgs(st, expr.args, 1, exponent)
  ELSE IF expr.type = "Pow"
       THEN LET base == expr.args[1]
                exp == expr.args[2]
            IN  IF isNumeric(exp)
                THEN collectFactors(st, base, Times(exp.value, exponent))
                ELSE [st EXCEPT !.factors = Append(st.factors, expr)]
  ELSE LET baseHash == expr.hash
       IN  [st EXCEPT !.baseHashToExpr = MapSet(st.baseHashToExpr, baseHash, expr),
                      !.powers = MapSet(st.powers, baseHash,
                                        Plus(GetOrZero(st.powers, baseHash), exponent))]

\* for (const expr of seq) { if (coeff === 0) break; collectFactors(expr); }
RECURSIVE MulCollectSeq(_, _, _)
MulCollectSeq(st, seq, i) ==
  IF i > Len(seq) \/ st.coeff = 0 THEN st
  ELSE MulCollectSeq(collectFactors(st, seq[i], 1), seq, i + 1)

RECURSIVE PowerPairs(_, _, _)
PowerPairs(powers, baseHashToExpr, i) ==
  IF i > Len(powers) THEN <<>>
  ELSE LET rest == PowerPairs(powers, baseHashToExpr, i + 1)
       IN  IF powers[i].val = 0 THEN rest
           ELSE IF MapHas(baseHashToExpr, powers[i].key)
                THEN <<[base |-> MapGet(baseHashToExpr, powers[i].key), exp |-> powers[i].val]>>
                     \o rest
           ELSE rest

\* Mul.flatten's result without its two sorts
MulFlattenUnsorted(st) ==
  [factors |-> st.factors,
   powers |-> PowerPairs(st.powers, st.baseHashToExpr, 1),
   coeff |-> st.coeff,
   seq |-> st.seq]

\* the sorts and the result of Mul.flatten, st the state its loop over seq
\* leaves; the field seq is the caller's array as the call leaves it
MulFlattenResult(st) ==
  [factors |-> Sort(st.factors),
   powers |-> SortByBase(PowerPairs(st.powers, st.baseHashToExpr, 1)),
   coeff |-> st.coeff,
   seq |-> st.seq]

MulFlatten(seq) ==
  MulFlattenResult(MulCollectSeq([powers |-> <<>>, factors |-> <<>>,
                                  baseHashToExpr |-> <<>>, coeff |-> 1, seq |-> seq],
                                 seq, 1))

RECURSIVE PowerArgs(_, _)
PowerArgs(powers, i) ==
  IF i > Len(powers) THEN <<>>
  ELSE (IF powers[i].exp = 1 THEN <<powers[i].base>>
        ELSE <<PowCreate(powers[i].base, SymNumber(powers[i].exp))>>)
       \o PowerArgs(powers, i + 1)

\* the final args array with the coefficient pushed last
MulFinalArgsCoeffLast(flattened) ==
  PowerArgs(flattened.powers, 1) \o flattened.factors
  \o (IF flattened.coeff # 1 THEN <<SymNumber(flattened.coeff)>> ELSE <<>>)

\* "Create final args array with coefficient first if not 1"
MulFinalArgs(flattened) ==
  (IF flattened.coeff # 1 THEN <<SymNumber(flattened.coeff)>> ELSE <<>>)
  \o PowerArgs(flattened.powers, 1) \o flattened.factors

\* the end of Mul.create, finalArgs the array it has assembled
MulOfFinalArgs(finalArgs) ==
  IF Len(finalArgs) = 0 THEN ONE
  ELSE IF Len(finalArgs) = 1 THEN finalArgs[1]
  ELSE NewMul(finalArgs)

\* Mul.create without its test of a zero coefficient
MulOfFlattenedUntested(flattened) ==
  IF Len(flattened.factors) = 0 /\ Len(flattened.powers) = 0
  THEN SymNumber(flattened.coeff)
  ELSE MulOfFinalArgs(MulFinalArgs(flattened))

\* Mul.create after the call of Mul.flatten
MulOfFlattened(flattened) ==
  IF flattened.coeff = 0 THEN ZERO
  ELSE IF Len(flattened.factors) = 0 /\ Len(flattened.powers) = 0
       THEN SymNumber(flattened.coeff)
  ELSE MulOfFinalArgs(MulFinalArgs(flattened))

\* what Mul.create hands back and the args array as it leaves it
MulCreated(flattened) == [res |-> MulOfFlattened(flattened), args |-> flattened.seq]

MulCreateCall(args) ==
  IF Len(args) = 0 THEN [res |-> ONE, args |-> args]
  ELSE IF Len(args) = 1 THEN [res |-> args[1], args |-> args]
  ELSE MulCreated(MulFlatten(args))

MulCreate(args) == MulCreateCall(args).res

(***************************** Add.create **********************************)
extractCoeffTerm(expr) ==
  IF isNumeric(expr) THEN [coeff |-> expr.value, term |-> ONE]
  ELSE IF expr.type = "Mul" /\ Len(expr.args) > 0 /\ isNumeric(expr.args[1])
       THEN LET remainingArgs == SubSeq(expr.args, 2, Len(expr.args))
            IN  [coeff |-> expr.args[1].value,
                 term |-> IF Len(remainingArgs) = 1 THEN remainingArgs[1]
                          ELSE NewMul(remainingArgs)]
  ELSE [coeff |-> 1, term |-> expr]

RECURSIVE collectTerms(_, _, _)
RECURSIVE CollectTermsArgs(_, _, _, _)
CollectTermsArgs(st, as, i, coefficient) ==
  IF i > Len(as) THEN st
  ELSE CollectTermsArgs(collectTerms(st, as[i], coefficient), as, i + 1, coefficient)

collectTerms(st, expr, coefficient) ==
  IF expr.type = "Zero" THEN st
  ELSE IF expr.type = "Number" \/ expr.type = "One" \/ expr.type = "NegativeOne"
       THEN [st EXCEPT !.coeff = Plus(st.coeff, Times(expr.value, coefficient))]
  ELSE IF expr.type = "Add" THEN CollectTermsArgs(st, expr.args, 1, coefficient)
  ELSE IF expr.type = "Mul"
       THEN LET ct == extractCoeffTerm(expr)
                termHash == ct.term.hash
            IN  [st EXCEPT !.terms = MapSet(st.terms, termHash,
                                            Plus(GetOrZero(st.terms, termHash),
                                                 Times(ct.coeff, coefficient)))]
  ELSE LET termHash == expr.hash
       IN  [st EXCEPT !.terms = MapSet(st.terms, termHash,
                                       Plus(GetOrZero(st.terms, termHash), coefficient))]

\* the first argument of an Add operand whose hash is termHash, if any
RECURSIVE FindArg(_, _, _)
FindArg(as, termHash, j) ==
  IF j > Len(as) THEN <<>>
  ELSE IF as[j].hash = termHash THEN <<as[j]>>
  ELSE FindArg(as, termHash, j + 1)

\* "Find the original term expression": <<term>>, or <<>> when the scan of
\* seq leaves term undefined
RECURSIVE FindTerm(_, _, _)
FindTerm(seq, termHash, i) ==
  IF i > Len(seq) THEN <<>>
  ELSE LET expr == seq[i]
           found == IF expr.type = "Add" THEN FindArg(expr.args, termHash, 1)
                    ELSE IF expr.type = "Mul"
                         THEN LET extractedTerm == extractCoeffTerm(expr).term
                              IN  IF extractedTerm.hash = termHash
                                  THEN <<extractedTerm>> ELSE <<>>
                    ELSE IF expr.hash = termHash THEN <<expr>>
                    ELSE <<>>
       IN  IF found # <<>> THEN found ELSE FindTerm(seq, termHash, i + 1)

\* what one entry of the terms map adds to resultTerms, term the answer of
\* the scan for its expression
ResultTerm(coeffValue, term) ==
  IF coeffValue = 0 THEN <<>>
  ELSE IF term = <<>> THEN <<>>
  ELSE IF coeffValue = 1 THEN term
  ELSE <<MulCreate(<<SymNumber(coeffValue), term[1]>>)>>

RECURSIVE ResultTerms(_, _, _)
ResultTerms(terms, seq, i) ==
  IF i > Len(terms) THEN <<>>
  ELSE ResultTerm(terms[i].val, FindTerm(seq, terms[i].key, 1))
       \o ResultTerms(terms, seq, i + 1)

RECURSIVE AddCollectSeq(_, _, _)
AddCollectSeq(st, seq, i) ==
  IF i > Len(seq) THEN st ELSE AddCollectSeq(collectTerms(st, seq[i], 1), seq, i + 1)

\* Add.flatten's result without its sort
AddFlattenUnsorted(st, seq) ==
  [terms |-> ResultTerms(st.terms, seq, 1), coeff |-> st.coeff, seq |-> seq]

\* the result of Add.flatten, st the state its loop over seq leaves; the
\* field seq is the caller's array as the call leaves it
AddFlattenResult(st, seq) ==
  [terms |-> Sort(ResultTerms(st.terms, seq, 1)), coeff |-> st.coeff, seq |-> seq]

\* Add.flatten sorting the array it is given in place before it reads it
AddFlattenSortingSeq(seq) ==
  AddFlattenResult(AddCollectSeq([terms |-> <<>>, coeff |-> 0], Sort(seq), 1), Sort(seq))

AddFlatten(seq) ==
  AddFlattenResult(AddCollectSeq([terms |-> <<>>, coeff |-> 0], seq, 1), seq)

\* Add.create after the call of Add.flatten
AddOfFlattened(flattened) ==
  IF Len(flattened.terms) = 0 THEN SymNumber(flattened.coeff)
  ELSE IF Len(flattened.terms) = 1 /\ flattened.coeff = 0 THEN flattened.terms[1]
  ELSE NewAdd((IF flattened.coeff # 0 THEN <<SymNumber(flattened.coeff)>> ELSE <<>>)
              \o flattened.terms)

\* what Add.create hands back and the args array as it leaves it
AddCreated(flattened) == [res |-> AddOfFlattened(flattened), args |-> flattened.seq]

AddCreateCall(args) ==
  IF Len(args) = 0 THEN [res |-> ZERO, args |-> args]
  ELSE IF Len(args) = 1 THEN [res |-> args[1], args |-> args]
  ELSE AddCreated(AddFlatten(args))

AddCreate(args) == AddCreateCall(args).res

(***************************** evaluateNumerical ***************************)
(* The answer of TypeScriptBackend.evaluateNumerical: err is "none" and val  *)
(* the number returned, or err names the Error thrown.                       *)
Returned(v) == [err |-> "none", val |-> v]
Thrown(e) == [err |-> e, val |-> 0]

RECURSIVE evaluateNumerical(_, _)
RECURSIVE EvalSum(_, _, _, _)
EvalSum(as, substitutions, i, sum) ==
  IF i > Len(as) THEN Returned(sum)
  ELSE LET r == evaluateNumerical(as[i], substitutions)
       IN  IF r.err # "none" THEN r ELSE EvalSum(as, substitutions, i + 1, Plus(sum, r.val))

RECURSIVE EvalProduct(_, _, _, _)
EvalProduct(as, substitutions, i, product) ==
  IF i > Len(as) THEN Returned(product)
  ELSE LET r == evaluateNumerical(as[i], substitutions)
       IN  IF r.err # "none" THEN r
           ELSE EvalProduct(as, substitutions, i + 1, Times(product, r.val))

evaluateNumerical(expr, substitutions) ==
  IF isNumeric(expr) THEN Returned(expr.value)
  ELSE IF expr.type = "Symbol"
       THEN (IF expr.name \in DOMAIN substitutions THEN Returned(substitutions[expr.name])
             ELSE IF expr.name \in ObjectPrototypeNames THEN Returned(NotNumber)
             ELSE Thrown("Cannot evaluate symbol without substitution"))
  ELSE IF expr.type = "Add" THEN EvalSum(expr.args, substitutions, 1, 0)
  ELSE IF expr.type = "Mul" THEN EvalProduct(expr.args, substitutions, 1, 1)
  ELSE IF expr.type = "Pow"
       THEN LET base == evaluateNumerical(expr.args[1], substitutions)
            IN  IF base.err # "none" THEN base
                ELSE LET exponent == evaluateNumerical(expr.args[2], substitutions)
                     IN  IF exponent.err # "none" THEN exponent
                         ELSE Returned(MathPow(base.val, exponent.val))
  ELSE Thrown("Cannot evaluate expression to a number")

(***************************** getSymbols **********************************)
(* A Set<string> is the sequence of its elements in insertion order.         *)
\* symbols.add(symbol)
SetAdd(symbols, symbol) ==
  IF \E i \in 1..Len(symbols) : symbols[i] = symbol THEN symbols ELSE Append(symbols, symbol)

\* for (const symbol of argSymbols) symbols.add(symbol)
RECURSIVE SetAddAll(_, _, _)
SetAddAll(symbols, argSymbols, i) ==
  IF i > Len(argSymbols) THEN symbols
  ELSE SetAddAll(SetAdd(symbols, argSymbols[i]), argSymbols, i + 1)

\* getSymbols without its loop over the arguments
getSymbolsOfNodeOnly(e) == IF e.type = "Symbol" THEN <<e.name>> ELSE <<>>

\* BaseExpression.getSymbols
RECURSIVE getSymbols(_)
RECURSIVE GetSymbolsArgs(_, _, _)
GetSymbolsArgs(symbols, as, i) ==
  IF i > Len(as) THEN symbols
  ELSE GetSymbolsArgs(SetAddAll(symbols, getSymbols(as[i]), 1), as, i + 1)

getSymbols(e) ==
  GetSymbolsArgs(IF e.type = "Symbol" THEN <<e.name>> ELSE <<>>, e.args, 1)

(***************************** SymbolRegistry ******************************)
\* nameToId.get(name) is undefined exactly when name is not in DOMAIN nameToId
getIdResult(name) == IF name \in DOMAIN nameToId THEN nameToId[name] ELSE nextId

MapPut(f, k, v) == [a \in DOMAIN f \cup {k} |-> IF a = k THEN v ELSE f[a]]

EmptyMap == [a \in {} |-> 0]

(***************************** the callers *********************************)
(* A caller holds the expressions it has built on a stack, builds leaves    *)
(* with num and sym, and passes the topmost operands to a create routine,   *)
(* whose result replaces them.  last records the latest call.               *)
(* A "building" session starts in a fresh process and builds every operand  *)
(* from leaves, within MaxNodes nodes.  A "holding" session starts after    *)
(* the symbols x, y and constructor were registered, takes operands that    *)
(* earlier calls returned (Seeds) and passes them to one create call, or    *)
(* one of them to evaluateNumerical.                                        *)
RECURSIVE NodeCount(_)
RECURSIVE NodeCountSeq(_, _)
NodeCountSeq(as, i) == IF i > Len(as) THEN 0 ELSE NodeCount(as[i]) + NodeCountSeq(as, i + 1)
NodeCount(e) == 1 + NodeCountSeq(e.args, 1)

RECURSIVE NumbersWithin(_, _)
RECURSIVE NumbersWithinSeq(_, _, _)
NumbersWithinSeq(as, i, bound) ==
  IF i > Len(as) THEN TRUE
  ELSE NumbersWithin(as[i], bound) /\ NumbersWithinSeq(as, i + 1, bound)
NumbersWithin(e, bound) ==
  IF isNumeric(e) THEN Abs(e.value) <= bound ELSE NumbersWithinSeq(e.args, 1, bound)

\* the stack a call of a building session may leave: within the bounds of the model
Admissible(s) ==
  /\ Len(s) <= MaxStack
  /\ NodeCountSeq(s, 1) <= MaxNodes
  /\ NumbersWithinSeq(s, 1, MaxNum)

\* every Number of e is a value the model holds
RECURSIVE InModel(_)
RECURSIVE InModelSeq(_, _)
InModelSeq(as, i) == IF i > Len(as) THEN TRUE ELSE InModel(as[i]) /\ InModelSeq(as, i + 1)
InModel(e) ==
  IF isNumeric(e) THEN Abs(e.value) <= MaxVal \/ IsBig(e.value) ELSE InModelSeq(e.args, 1)

\* the stack a call may leave
Allowed(s) ==
  IF session = "building" THEN Admissible(s) ELSE InModelSeq(s, 1)

Top(k) == SubSeq(stack, Len(stack) - k + 1, Len(stack))
Below(k) == SubSeq(stack, 1, Len(stack) - k)

Call(op, args, res) ==
  [op |-> op, args |-> args, res |-> res, substitutions |-> EmptyMap, out |-> Returned(0),
   symbols |-> <<>>, argsAfter |-> args]

Substitutions == UNION {[D -> SubstVals] : D \in SUBSET Names}

\* the registry after sym("x"), sym("y") and sym("constructor")
HeldNameToId == MapPut(MapPut(MapPut(EmptyMap, "x", 1), "y", 2), "constructor", 3)
HeldIdToName == MapPut(MapPut(MapPut(EmptyMap, 1, "x"), 2, "y"), 3, "constructor")
HeldX == SymSymbol("x", 1)
HeldY == SymSymbol("y", 2)
HeldConstructor == SymSymbol("constructor", 3)
HeldSum == AddCreate(<<HeldX, HeldY>>)
HeldProduct == MulCreate(<<HeldX, HeldY>>)
HeldPower == PowCreate(HeldX, HeldY)

\* the operands of a holding session: the leaves and results of create calls
Seeds ==
  { ZERO, ONE, NEGATIVE_ONE, SymNumber(2), HeldX, HeldY, HeldConstructor,
    HeldSum, HeldProduct, HeldPower,
    MulCreate(<<SymNumber(2), HeldX>>),
    AddCreate(<<HeldY, MulCreate(<<SymNumber(2), HeldX>>)>>),
    AddCreate(<<PowCreate(HeldX, SymNumber(2)), MulCreate(<<SymNumber(2), HeldX>>)>>),
    MulCreate(<<SymNumber(2), HeldSum>>),
    MulCreate(<<NEGATIVE_ONE, HeldSum>>),
    AddCreate(<<HeldX, MulCreate(<<SymNumber(2), HeldSum>>), MulCreate(<<NEGATIVE_ONE, HeldSum>>)>>),
    PowCreate(HeldX, NEGATIVE_ONE),
    SymNumber(AtTwoTo53),
    SymNumber(NaN),
    PowCreate(HeldX, SymNumber(AtTwoTo53)),
    PowCreate(HeldPower, SymNumber(2)),
    PowCreate(HeldProduct, SymNumber(2)) }

\* BackendType.TYPESCRIPT, the only member of the enum
TYPESCRIPT == "typescript"
\* the value of an omitted argument and of BackendType.WEBASSEMBLY, which the
\* enum does not define
Undefined == "undefined"
\* the backendType arguments of the callers: the enum member, the value of a
\* missing member, and a string passed through a cast
BackendInputs == {TYPESCRIPT, Undefined, "webassembly"}
\* config.defaultBackend of new SymEngine()
DefaultBackend == TYPESCRIPT
\* new TypeScriptBackend(): ref numbers the objects in allocation order
TypeScriptBackend(ref) == [type |-> TYPESCRIPT, ref |-> ref]

Init ==
  /\ stack = <<>>
  /\ last = Call("none", <<>>, ZERO)
  /\ backend = TypeScriptBackend(1)
  /\ \/ /\ session = "building"
        /\ nameToId = EmptyMap
        /\ idToName = EmptyMap
        /\ nextId = 1
     \/ /\ session = "holding"
        /\ nameToId = HeldNameToId
        /\ idToName = HeldIdToName
        /\ nextId = 4

\* the caller's side of a call: the result replaces the operands it took
Push(op, below, args, res) ==
  /\ Allowed(Append(below, res))
  /\ stack' = Append(below, res)
  /\ last' = Call(op, args, res)

\* the caller's side of a create call on an array of operands: created holds
\* the result and the array after the call
PushCreated(op, below, args, created) ==
  /\ Allowed(Append(below, created.res))
  /\ stack' = Append(below, created.res)
  /\ last' = [Call(op, args, created.res) EXCEPT !.argsAfter = created.args]

\* num(value)
Num(value) ==
  /\ session = "building"
  /\ Len(stack) < MaxStack
  /\ Push("num", stack, <<>>, SymNumber(value))
  /\ UNCHANGED <<nameToId, idToName, nextId, session, backend>>

\* SymbolRegistry.getId(name) with nextId read but not incremented
getIdKeepingNextId(name) ==
  IF name \in DOMAIN nameToId
  THEN UNCHANGED <<nameToId, idToName, nextId>>
  ELSE /\ nextId' = nextId
       /\ nameToId' = MapPut(nameToId, name, nextId)
       /\ idToName' = MapPut(idToName, nextId, name)

\* SymbolRegistry.getId(name)
getId(name) ==
  IF name \in DOMAIN nameToId
  THEN UNCHANGED <<nameToId, idToName, nextId>>
  ELSE /\ nextId' = nextId + 1
       /\ nameToId' = MapPut(nameToId, name, nextId)
       /\ idToName' = MapPut(idToName, nextId, name)

\* sym(name): new SymSymbol(name), which calls SymbolRegistry.getId(name)
Sym(name) ==
  /\ session = "building"
  /\ Len(stack) < MaxStack
  /\ getId(name)
  /\ Push("sym", stack, <<>>, SymSymbol(name, getIdResult(name)))
  /\ UNCHANGED <<session, backend>>

\* the caller of a holding session takes an operand an earlier call returned
Hold(e) ==
  /\ session = "holding"
  /\ last.op \in {"none", "hold"}
  /\ Len(stack) < MaxStack
  /\ stack' = Append(stack, e)
  /\ last' = Call("hold", <<>>, e)
  /\ UNCHANGED <<nameToId, idToName, nextId, session, backend>>

\* a holding session makes one create call
MayCreate == session = "building" \/ last.op = "hold"

\* Add.create(...args) on the k topmost operands
DoAdd(k) ==
  /\ MayCreate
  /\ k <= Len(stack)
  /\ PushCreated("Add", Below(k), Top(k), AddCreateCall(Top(k)))
  /\ UNCHANGED <<nameToId, idToName, nextId, session, backend>>

\* Mul.create(...args) on the k topmost operands
DoMul(k) ==
  /\ MayCreate
  /\ k <= Len(stack)
  /\ PushCreated("Mul", Below(k), Top(k), MulCreateCall(Top(k)))
  /\ UNCHANGED <<nameToId, idToName, nextId, session, backend>>

\* Pow.create(base, exponent) on the two topmost operands
DoPow ==
  /\ MayCreate
  /\ 2 <= Len(stack)
  /\ Push("Pow", Below(2), Top(2), PowCreate(stack[Len(stack) - 1], stack[Len(stack)]))
  /\ UNCHANGED <<nameToId, idToName, nextId, session, backend>>

\* backend.evaluateNumerical(expr, substitutions) on the expression the caller
\* has finished building
Evaluate(substitutions) ==
  /\ session = "building" \/ last.op = "hold"
  /\ Len(stack) = 1
  /\ last' = [op |-> "evaluateNumerical", args |-> Top(1), res |-> stack[Len(stack)],
              substitutions |-> substitutions,
              out |-> evaluateNumerical(stack[Len(stack)], substitutions),
              symbols |-> <<>>, argsAfter |-> Top(1)]
  /\ UNCHANGED <<stack, nameToId, idToName, nextId, session, backend>>

\* expr.getSymbols() on the expression the caller has finished building
GetSymbols ==
  /\ session = "building" \/ last.op = "hold"
  /\ Len(stack) = 1
  /\ last' = [Call("getSymbols", Top(1), stack[Len(stack)])
                EXCEPT !.symbols = getSymbols(stack[Len(stack)])]
  /\ UNCHANGED <<stack, nameToId, idToName, nextId, session, backend>>

Next ==
  \/ \E value \in NumInputs : Num(value)
  \/ \E name \in Names : Sym(name)
  \/ \E e \in Seeds : Hold(e)
  \/ \E k \in 0..MaxStack : DoAdd(k)
  \/ \E k \in 0..MaxStack : DoMul(k)
  \/ DoPow
  \/ \E substitutions \in Substitutions : Evaluate(substitutions)
  \/ GetSymbols

Spec == Init /\ [][Next]_vars

(***************************** the registry's callers **********************)
(* A caller that constructs symbols and also calls the registry itself.      *)
\* SymbolRegistry.getId(name), called directly
CallGetId(name) ==
  /\ getId(name)
  /\ last' = [Call("getId", <<>>, ZERO) EXCEPT !.out = Returned(getIdResult(name))]
  /\ UNCHANGED <<stack, session, backend>>

\* SymbolRegistry.clear()
clear ==
  /\ nameToId' = EmptyMap
  /\ idToName' = EmptyMap
  /\ nextId' = 1
  /\ last' = Call("clear", <<>>, ZERO)
  /\ UNCHANGED <<stack, session, backend>>

NextRegistry ==
  \/ \E name \in Names : Sym(name)
  \/ \E name \in Names : CallGetId(name)
  \/ clear

SpecRegistry == Init /\ [][NextRegistry]_vars

\* callers that construct symbols and call getId, in any interleaving, and
\* never clear the registry
NextGetId ==
  \/ \E name \in Names : Sym(name)
  \/ \E name \in Names \cup ObjectPrototypeNames : CallGetId(name)

SpecGetId == Init /\ [][NextGetId]_vars

(***************************** the engine's callers ************************)
\* SymEngine.initialize(backendType): the backend field and the outcome of
\* the promise after the call
initialize(backendType) ==
  LET targetBackend == IF backendType = Undefined THEN DefaultBackend ELSE backendType
  IN  IF targetBackend = TYPESCRIPT
      THEN [backend |-> TypeScriptBackend(backend.ref + 1), out |-> Returned(0)]
      ELSE [backend |-> backend, out |-> Thrown("Unknown backend type")]

\* await engine.initialize(backendType)
CallInitialize(backendType) ==
  /\ backend.ref < MaxBackends
  /\ backend' = initialize(backendType).backend
  /\ last' = [Call("initialize", <<backendType>>, ZERO) EXCEPT !.out = initialize(backendType).out]
  /\ UNCHANGED <<stack, nameToId, idToName, nextId, session>>

\* await engine.switchBackend(backendType): this.backend.dispose() does
\* nothing, then initialize(backendType)
switchBackend(backendType) ==
  /\ backend.ref < MaxBackends
  /\ backend' = initialize(backendType).backend
  /\ last' = [Call("switchBackend", <<backendType>>, ZERO) EXCEPT !.out = initialize(backendType).out]
  /\ UNCHANGED <<stack, nameToId, idToName, nextId, session>>

\* engine.dispose(): TypeScriptBackend.dispose() does nothing
dispose ==
  /\ last' = Call("dispose", <<>>, ZERO)
  /\ UNCHANGED <<stack, nameToId, idToName, nextId, session, backend>>

\* engine.getBackendType()
getBackendType ==
  /\ last' = [Call("getBackendType", <<>>, ZERO) EXCEPT !.out = Returned(backend.type)]
  /\ UNCHANGED <<stack, nameToId, idToName, nextId, session, backend>>

NextEngine ==
  \/ \E backendType \in BackendInputs : CallInitialize(backendType)
  \/ \E backendType \in BackendInputs : switchBackend(backendType)
  \/ dispose
  \/ getBackendType

SpecEngine == Init /\ [][NextEngine]_vars

(***************************** callers with colliding names ****************)
\* a caller that builds expressions over two symbols of the same hash
NextCollision ==
  \/ \E name \in CollidingNames : Sym(name)
  \/ \E k \in 0..MaxStack : DoAdd(k)
  \/ \E k \in 0..MaxStack : DoMul(k)
  \/ DoPow

SpecCollision == Init /\ [][NextCollision]_vars

(***************************** properties **********************************)
\* no Number of e is outside the values the model holds
ExactExpr(e) == InModel(e)

\* every Number of the operands is an integer of magnitude up to MaxVal
ExactOperands(as) == NumbersWithinSeq(as, 1, MaxVal)

\* the evaluation returned an integer of magnitude up to MaxVal
ExactOut(r) == r.err = "none" /\ Abs(r.val) <= MaxVal

TotalSubstitutions == [Names -> SubstVals]

PositiveSubstitutions == {s \in TotalSubstitutions : \A n \in Names : s[n] > 0}

NonNumeric(e) == ~isNumeric(e)

IsZeroNumber(e) == isNumeric(e) /\ e.value = 0

IsOneNumber(e) == isNumeric(e) /\ e.value = 1

\* the c of a claim about a, b and c: a leaf, or an expression the caller holds
ThirdOperands ==
  {SymNumber(v) : v \in NumInputs}
  \cup {SymSymbol(n, nameToId[n]) : n \in DOMAIN nameToId}
  \cup {stack[i] : i \in 1..(Len(stack) - 1)}

Reorderings(s) ==
  {[i \in 1..Len(s) |-> s[p[i]]] :
     p \in {q \in [1..Len(s) -> 1..Len(s)] : \A i, j \in 1..Len(s) : q[i] = q[j] => i = j}}

RECURSIVE AllExactOut(_, _, _)
AllExactOut(as, s, i) ==
  IF i > Len(as) THEN TRUE
  ELSE ExactOut(evaluateNumerical(as[i], s)) /\ AllExactOut(as, s, i + 1)

RECURSIVE SumOfValues(_, _, _)
SumOfValues(as, s, i) ==
  IF i > Len(as) THEN 0 ELSE evaluateNumerical(as[i], s).val + SumOfValues(as, s, i + 1)

RECURSIVE ProductOfValues(_, _, _)
ProductOfValues(as, s, i) ==
  IF i > Len(as) THEN 1
  ELSE LET rest == ProductOfValues(as, s, i + 1)
       IN  IF Abs(rest) > MaxVal THEN rest ELSE evaluateNumerical(as[i], s).val * rest

\* C1: the value of Add.create(operands), two or more operands, under a
\* substitution binding every symbol is the sum of the operands' values.
C1_AddEvaluatesToSum ==
  (last.op = "Add" /\ Len(last.args) >= 2) =>
    \A s \in TotalSubstitutions :
      (AllExactOut(last.args, s, 1) /\ ExactOut(evaluateNumerical(last.res, s))) =>
        evaluateNumerical(last.res, s).val = SumOfValues(last.args, s, 1)

\* C2: the value of Mul.create(operands), two or more operands, under a
\* substitution binding every symbol to a positive integer is the product of
\* the operands' values.
C2_MulEvaluatesToProduct ==
  (last.op = "Mul" /\ Len(last.args) >= 2) =>
    \A s \in PositiveSubstitutions :
      (AllExactOut(last.args, s, 1) /\ ExactOut(evaluateNumerical(last.res, s))) =>
        evaluateNumerical(last.res, s).val = ProductOfValues(last.args, s, 1)

\* C3: Add.create(Add.create(a, b), c) equals Add.create(a, b, c).
C3_AddAssociativityCollapse ==
  (last.op = "Add" /\ Len(last.args) = 2) =>
    \A c \in ThirdOperands :
      (ExactExpr(AddCreate(<<last.res, c>>)) /\ ExactExpr(AddCreate(last.args \o <<c>>))) =>
        equals(AddCreate(<<last.res, c>>), AddCreate(last.args \o <<c>>))

Recreate(e) ==
  CASE e.type = "Add" -> AddCreate(e.args)
    [] e.type = "Mul" -> MulCreate(e.args)
    [] e.type = "Pow" -> PowCreate(e.args[1], e.args[2])

\* C7: an Add, Mul or Pow node returned by the create routine of its kind
\* equals the result of that routine on the node's own operand list.
C7_CreateIdempotent ==
  (last.op \in {"Add", "Mul", "Pow"} /\ last.res.type = last.op /\ ExactExpr(last.res)) =>
    equals(Recreate(last.res), last.res)

\* C8: Add.create(x, Number(0)) and Add.create(Number(0), x) equal x, x not numeric.
C8_AddZeroAbsorbed ==
  (last.op = "Add" /\ Len(last.args) = 2) =>
    /\ (NonNumeric(last.args[1]) /\ IsZeroNumber(last.args[2])) => equals(last.res, last.args[1])
    /\ (IsZeroNumber(last.args[1]) /\ NonNumeric(last.args[2])) => equals(last.res, last.args[2])

\* C9: Mul.create(x, Number(1)) equals x, x not numeric.
C9_MulOneAbsorbed ==
  (last.op = "Mul" /\ Len(last.args) = 2
     /\ NonNumeric(last.args[1]) /\ IsOneNumber(last.args[2])) =>
    equals(last.res, last.args[1])

\* C10: Mul.create of two or more operands, one of them a Number of value 0,
\* returns a node of kind Zero.
C10_MulZeroDominates ==
  (last.op = "Mul" /\ Len(last.args) >= 2
     /\ \E i \in 1..Len(last.args) : IsZeroNumber(last.args[i])) =>
    last.res.type = "Zero"

C10_Witness ==
  /\ last.op = "Mul" /\ Len(last.args) = 3
  /\ last.args[1].type = "Mul"
  /\ last.args[2].type = "Pow"
  /\ IsZeroNumber(last.args[3])
  /\ last.res.type = "Zero"


\* the same node: same kind, same leaf payload, the same operands in order
RECURSIVE Identical(_, _)
RECURSIVE IdenticalArgs(_, _, _)
IdenticalArgs(as, bs, i) ==
  IF i > Len(as) THEN TRUE ELSE Identical(as[i], bs[i]) /\ IdenticalArgs(as, bs, i + 1)
Identical(a, b) ==
  /\ a.type = b.type
  /\ a.value = b.value
  /\ a.name = b.name
  /\ Len(a.args) = Len(b.args)
  /\ IdenticalArgs(a.args, b.args, 1)

\* C11: Pow.create(base, exponent) returns what the first matching rule gives:
\* exponent Zero gives One, exponent One gives the base, base Zero gives Zero,
\* base One gives One, numeric base and exponent give the Number
\* base^exponent, anything else a Pow node over [base, exponent].
C11_PowCreateRuleOrder ==
  last.op = "Pow" =>
    LET base == last.args[1]
        exponent == last.args[2]
    IN  IF exponent.type = "Zero" THEN last.res.type = "One"
        ELSE IF exponent.type = "One" THEN Identical(last.res, base)
        ELSE IF base.type = "Zero" THEN last.res.type = "Zero"
        ELSE IF base.type = "One" THEN last.res.type = "One"
        ELSE IF isNumeric(base) /\ isNumeric(exponent)
             THEN /\ isNumeric(last.res)
                  /\ last.res.value = MathPow(base.value, exponent.value)
        ELSE /\ last.res.type = "Pow"
             /\ Len(last.res.args) = 2
             /\ Identical(last.res.args[1], base)
             /\ Identical(last.res.args[2], exponent)

C11_Witness ==
  /\ last.op = "Pow"
  /\ last.args[1].type = "Zero"
  /\ last.args[2].type = "Zero"
  /\ last.res.type = "One"


\* C12: Add.create(x, x) equals Mul.create(Number(2), x), and
\* Add.create(x, x, Number(1)) equals Add.create(Number(1), Mul.create(Number(2), x)),
\* x not numeric.
C12_AddCollectsLikeTerms ==
  (last.op = "Add" /\ Len(last.args) >= 2
     /\ NonNumeric(last.args[1]) /\ equals(last.args[1], last.args[2])
     /\ ExactExpr(last.res) /\ ExactExpr(MulCreate(<<SymNumber(2), last.args[1]>>))) =>
    /\ Len(last.args) = 2 => equals(last.res, MulCreate(<<SymNumber(2), last.args[1]>>))
    /\ (Len(last.args) = 3 /\ IsOneNumber(last.args[3])) =>
         equals(last.res, AddCreate(<<ONE, MulCreate(<<SymNumber(2), last.args[1]>>)>>))


\* C13: Mul.create(x, x) equals Pow.create(x, Number(2)), x not numeric.
C13_MulCollectsLikeBases ==
  (last.op = "Mul" /\ Len(last.args) = 2
     /\ NonNumeric(last.args[1]) /\ equals(last.args[1], last.args[2])
     /\ ExactExpr(last.res)) =>
    equals(last.res, PowCreate(last.args[1], SymNumber(2)))


\* the expressions the caller holds, with the operands and the result of the latest call
Held ==
  {stack[i] : i \in 1..Len(stack)} \cup {last.args[i] : i \in 1..Len(last.args)} \cup {last.res}

\* C14: a.equals(b) is true exactly when a and b are structurally identical,
\* and then a.hash equals b.hash.
C14_EqualsIsStructuralIdentity ==
  \A a, b \in Held :
    /\ equals(a, b) <=> Identical(a, b)
    /\ equals(a, b) => a.hash = b.hash


\* an Add node in the form C15 states
AddNodeCanonical(n) ==
  /\ Len(n.args) >= 2
  /\ \A i \in 1..Len(n.args) : n.args[i].type # "Add" /\ ~IsZeroNumber(n.args[i])
  /\ \A i \in 2..Len(n.args) : NonNumeric(n.args[i])
  /\ \A i \in 1..(Len(n.args) - 1) :
       NonNumeric(n.args[i]) => compareTo(n.args[i], n.args[i + 1]) < 0

RECURSIVE AddsCanonical(_)
RECURSIVE AddsCanonicalSeq(_, _)
AddsCanonicalSeq(as, i) ==
  IF i > Len(as) THEN TRUE ELSE AddsCanonical(as[i]) /\ AddsCanonicalSeq(as, i + 1)
AddsCanonical(e) ==
  (e.type = "Add" => AddNodeCanonical(e)) /\ AddsCanonicalSeq(e.args, 1)

\* C15: every Add node a create call returns has two or more operands, none
\* of kind Add, none of value 0, at most one numeric operand, which is then
\* the first, and its other operands in strictly ascending compareTo order.
C15_AddNodesCanonical ==
  last.op \in {"Add", "Mul", "Pow"} => AddsCanonical(last.res)


\* a Mul node in the form C16 states
MulNodeCanonical(n) ==
  /\ Len(n.args) >= 2
  /\ \A i \in 1..Len(n.args) :
       n.args[i].type # "Mul" /\ ~IsZeroNumber(n.args[i]) /\ ~IsOneNumber(n.args[i])
  /\ \A i \in 2..Len(n.args) : NonNumeric(n.args[i])

RECURSIVE MulsCanonical(_)
RECURSIVE MulsCanonicalSeq(_, _)
MulsCanonicalSeq(as, i) ==
  IF i > Len(as) THEN TRUE ELSE MulsCanonical(as[i]) /\ MulsCanonicalSeq(as, i + 1)
MulsCanonical(e) ==
  (e.type = "Mul" => MulNodeCanonical(e)) /\ MulsCanonicalSeq(e.args, 1)

\* C16: every Mul node a create call returns has two or more operands, none
\* of kind Mul, none of value 0 or 1, and at most one numeric operand, which
\* is then the first.
C16_MulNodesCanonical ==
  last.op \in {"Add", "Mul", "Pow"} => MulsCanonical(last.res)

C16_Witness ==
  /\ last.op = "Mul" /\ Len(last.args) = 2
  /\ last.args[1].type = "Symbol"
  /\ last.args[2].type = "Number"
  /\ last.res.type = "Mul"
  /\ last.res.args[1].type = "Number"


\* the base of an operand of a Mul node: b for a Pow operand [b, e], the
\* operand itself otherwise
BaseOf(e) == IF e.type = "Pow" THEN e.args[1] ELSE e

MulNodeBasesDistinct(n) ==
  \A i, j \in 1..Len(n.args) : i # j => ~equals(BaseOf(n.args[i]), BaseOf(n.args[j]))

\* C17: no two operands of a Mul node returned by Mul.create share a base.
C17_MulBasesDistinct ==
  (last.op = "Mul" /\ last.res.type = "Mul") => MulNodeBasesDistinct(last.res)


\* a Pow node in the form C18 states
PowNodeCanonical(n) ==
  /\ Len(n.args) = 2
  /\ n.args[2].type \notin {"Zero", "One"}
  /\ n.args[1].type \notin {"Zero", "One"}
  /\ ~(isNumeric(n.args[1]) /\ isNumeric(n.args[2]))

RECURSIVE PowsCanonical(_)
RECURSIVE PowsCanonicalSeq(_, _)
PowsCanonicalSeq(as, i) ==
  IF i > Len(as) THEN TRUE ELSE PowsCanonical(as[i]) /\ PowsCanonicalSeq(as, i + 1)
PowsCanonical(e) ==
  (e.type = "Pow" => PowNodeCanonical(e)) /\ PowsCanonicalSeq(e.args, 1)

\* C18: every Pow node a create call returns has exactly two operands, an
\* exponent and a base that are not of kind Zero or One, and is not numeric
\* in both.
C18_PowNodesCanonical ==
  last.op \in {"Add", "Mul", "Pow"} => PowsCanonical(last.res)

C18_Witness ==
  /\ last.op = "Mul" /\ Len(last.args) = 3
  /\ last.res.type = "Mul"
  /\ \E i \in 1..Len(last.res.args) :
       /\ last.res.args[i].type = "Pow"
       /\ \A j \in 1..Len(last.args) : ~equals(last.args[j], last.res.args[i])


\* C19: two Symbol nodes are equal by equals exactly when they have the same name.
C19_SymbolsEqualByName ==
  \A i, j \in 1..Len(stack) :
    (stack[i].type = "Symbol" /\ stack[j].type = "Symbol") =>
      (equals(stack[i], stack[j]) <=> stack[i].name = stack[j].name)


\* the names of the Symbol nodes of e's tree
RECURSIVE SymbolsOf(_)
RECURSIVE SymbolsOfSeq(_, _)
SymbolsOfSeq(as, i) == IF i > Len(as) THEN {} ELSE SymbolsOf(as[i]) \cup SymbolsOfSeq(as, i + 1)
SymbolsOf(e) == IF e.type = "Symbol" THEN {e.name} ELSE SymbolsOfSeq(e.args, 1)

\* C20: evaluateNumerical(e, substitutions) fails exactly when a Symbol of e
\* has a name that is not a key of substitutions, and returns a number otherwise.
C20_EvaluateFailsIffUnbound ==
  last.op = "evaluateNumerical" =>
    /\ last.out.err # "none" <=> \E n \in SymbolsOf(last.res) : n \notin DOMAIN last.substitutions
    /\ last.out.err = "none" => last.out.val # NotNumber


\* name is the name of a Symbol leaf of e's tree
RECURSIVE Occurs(_, _)
Occurs(name, e) ==
  IF e.type = "Symbol" THEN e.name = name
  ELSE \E i \in 1..Len(e.args) : Occurs(name, e.args[i])

\* C21: getSymbols(e) is the set of the names of the Symbol leaves of e's
\* tree: every such name, no other, each once.
C21_GetSymbolsExact ==
  last.op = "getSymbols" =>
    /\ \A name \in Names \cup ObjectPrototypeNames :
         Occurs(name, last.res) <=> \E i \in 1..Len(last.symbols) : last.symbols[i] = name
    /\ \A i \in 1..Len(last.symbols) : last.symbols[i] \in Names \cup ObjectPrototypeNames
    /\ \A i, j \in 1..Len(last.symbols) : last.symbols[i] = last.symbols[j] => i = j

C21_Witness ==
  /\ last.op = "getSymbols"
  /\ last.res.type = "Add" /\ Len(last.res.args) = 2
  /\ last.res.args[1].type = "Symbol"
  /\ last.res.args[2].type = "Pow"
  /\ equals(last.res.args[2].args[1], last.res.args[1])
  /\ last.symbols = <<last.res.args[1].name>>

\* C22: every node of value 0, 1 or -1 that num, Add.create, Mul.create or
\* Pow.create returns is the shared object ZERO, ONE or NEGATIVE_ONE, never
\* an object the call allocated
C22_SingletonsShared ==
  (last.op \in {"num", "Add", "Mul", "Pow"} /\ isNumeric(last.res)) =>
    /\ last.res.value = 0 => last.res = ZERO
    /\ last.res.value = 1 => last.res = ONE
    /\ last.res.value = -1 => last.res = NEGATIVE_ONE


\* C23: Add.create(t, Mul.create(Number(-1), t)) is of kind Zero for every
\* non-numeric t the constructors produce
C23_AddOfNegationIsZero ==
  ( /\ last.op = "Add"
    /\ Len(last.args) = 2
    /\ ~isNumeric(last.args[1])
    /\ Identical(last.args[2], MulCreate(<<NEGATIVE_ONE, last.args[1]>>)) ) =>
    last.res.type = "Zero"


\* no Number leaf of e's tree holds NaN
RECURSIVE IntegerValued(_)
RECURSIVE IntegerValuedSeq(_, _)
IntegerValuedSeq(as, i) ==
  IF i > Len(as) THEN TRUE ELSE IntegerValued(as[i]) /\ IntegerValuedSeq(as, i + 1)
IntegerValued(e) == e.value # NaN /\ IntegerValuedSeq(e.args, 1)

Sign(n) == IF n < 0 THEN -1 ELSE IF n > 0 THEN 1 ELSE 0

\* the position of a kind in Zero < One < NegativeOne < Number < Symbol < Pow < Mul < Add
KindRank(t) ==
  CHOOSE i \in 1..8 :
    <<"Zero", "One", "NegativeOne", "Number", "Symbol", "Pow", "Mul", "Add">>[i] = t

\* the integer-valued expressions the caller holds on its stack
Comparable == {stack[i] : i \in {j \in 1..Len(stack) : IntegerValued(stack[j])}}

\* C24: compareTo is a total order on the integer-valued expressions the
\* constructors produce: different kinds are ordered Zero < One < NegativeOne <
\* Number < Symbol < Pow < Mul < Add, sign(a.compareTo(b)) = -sign(b.compareTo(a)),
\* the order is transitive, and a.compareTo(b) = 0 exactly when a.equals(b)
C24_CompareToTotalOrder ==
  \A a, b \in Comparable :
    /\ a.type # b.type => Sign(compareTo(a, b)) = Sign(KindRank(a.type) - KindRank(b.type))
    /\ Sign(compareTo(a, b)) = -Sign(compareTo(b, a))
    /\ compareTo(a, b) = 0 <=> equals(a, b)
    /\ \A c \in Comparable :
         (compareTo(a, b) <= 0 /\ compareTo(b, c) <= 0) => compareTo(a, c) <= 0


\* C25: Add.create and Mul.create merge two operands only when they are
\* structurally equal: two different symbols both remain in the result, also
\* when their 32-bit hashes are the same
C25_DifferentTermsBothRemain ==
  ( /\ last.op \in {"Add", "Mul"}
    /\ Len(last.args) = 2
    /\ last.args[1].type = "Symbol" /\ last.args[2].type = "Symbol"
    /\ last.args[1].name # last.args[2].name ) =>
    /\ Occurs(last.args[1].name, last.res)
    /\ Occurs(last.args[2].name, last.res)


\* every Number-family node of e's tree has the kind its value selects
RECURSIVE KindsMatchValues(_)
RECURSIVE KindsMatchValuesSeq(_, _)
KindsMatchValuesSeq(as, i) ==
  IF i > Len(as) THEN TRUE ELSE KindsMatchValues(as[i]) /\ KindsMatchValuesSeq(as, i + 1)
KindsMatchValues(e) ==
  /\ isNumeric(e) =>
       /\ e.type = "Zero" <=> e.value = 0
       /\ e.type = "One" <=> e.value = 1
       /\ e.type = "NegativeOne" <=> e.value = -1
       /\ e.type = "Number" <=> e.value \notin {0, 1, -1}
  /\ KindsMatchValuesSeq(e.args, 1)

\* C26: every Number-family node reachable through num or the create
\* routines has kind Zero exactly when its value is 0, One exactly when it is
\* 1, NegativeOne exactly when it is -1 and Number otherwise
C26_KindMatchesValue == \A e \in Held : KindsMatchValues(e)

\* Add.create of two Numbers allocates a node of value -1 inside its result
C26_Witness ==
  /\ last.op = "Add"
  /\ Len(last.args) = 2
  /\ last.args[1].type = "Number"
  /\ last.res.type = "Add"
  /\ last.res.args[1].type = "NegativeOne"
  /\ last.res.args[1].ref = "new"


\* C27: initialize(t) with a t that does not name an implemented backend
\* rejects with an error and leaves the engine's backend as it was, and
\* getBackendType() returns TYPESCRIPT after any sequence of initialize,
\* switchBackend and dispose calls
C27_UnknownBackendRejected ==
  [][ /\ (last'.op = "initialize" /\ last'.args[1] # TYPESCRIPT) =>
          (last'.out.err # "none" /\ backend' = backend)
      /\ last'.op = "getBackendType" => last'.out.val = TYPESCRIPT ]_vars


\* FNV-1a written out on the four bytes of a 32-bit word, least significant
\* byte first: 16777619 = 2^24 + 2^8 + 147
FnvBytes(n) == <<n[2] % 256, n[2] \div 256, n[1] % 256, n[1] \div 256>>

FnvWord(b) == <<b[4] * 256 + b[3], b[2] * 256 + b[1]>>

RECURSIVE FnvXorByte(_, _, _)
FnvXorByte(a, b, bit) ==
  IF bit = 8 THEN 0
  ELSE (((a % 2) + (b % 2)) % 2) + 2 * FnvXorByte(a \div 2, b \div 2, bit + 1)

FnvXor(a, b) ==
  <<FnvXorByte(a[1], b[1], 0), FnvXorByte(a[2], b[2], 0),
    FnvXorByte(a[3], b[3], 0), FnvXorByte(a[4], b[4], 0)>>

FnvDigit1(b) == b[1] * 147
FnvDigit2(b) == b[2] * 147 + b[1] + (FnvDigit1(b) \div 256)
FnvDigit3(b) == b[3] * 147 + b[2] + (FnvDigit2(b) \div 256)
FnvDigit4(b) == b[4] * 147 + b[3] + b[1] + (FnvDigit3(b) \div 256)
FnvTimesPrime(b) ==
  <<FnvDigit1(b) % 256, FnvDigit2(b) % 256, FnvDigit3(b) % 256, FnvDigit4(b) % 256>>

\* 2166136261 = 0x811C9DC5
FnvBasis == <<197, 157, 28, 129>>

\* the fold over words in positional order: xor the element in, then multiply
\* taken by halves; the bytes after the left half are computed before the
\* right half starts
RECURSIVE FnvFoldBytes(_, _, _, _)
FnvFoldRest(h, words, lo, hi) ==
  IF Len(h) = 4 THEN FnvFoldBytes(h, words, lo, hi) ELSE h
FnvFoldBytes(h, words, lo, hi) ==
  IF lo > hi THEN h
  ELSE IF lo = hi THEN FnvTimesPrime(FnvXor(h, FnvBytes(words[lo])))
  ELSE FnvFoldRest(FnvFoldBytes(h, words, lo, (lo + hi) \div 2), words,
                   ((lo + hi) \div 2) + 1, hi)

FnvFold(h, words, i) == FnvWord(FnvFoldBytes(h, words, i, Len(words)))

\* the fold over the code units of a string
FnvOfCodes(codes) == FnvFold(FnvBasis, [i \in 1..Len(codes) |-> <<0, codes[i]>>], 1)

\* the kind the spec gives a value
KindOfValue(value) ==
  IF value = 0 THEN "Zero" ELSE IF value = 1 THEN "One"
  ELSE IF value = -1 THEN "NegativeOne" ELSE "Number"

FnvOfNumber(value) ==
  FnvOfCodes(TypeCodes(KindOfValue(value)) \o Colon \o NumberCodes(value))

\* the folds of the strings the model hashes, tabulated
FnvOfKinds == [t \in Types |-> FnvOfCodes(TypeCodes(t))]
FnvOfNumbers == [value \in (-MaxVal - 1)..(MaxVal + 1) |-> FnvOfNumber(value)]
FnvOfNumbersNearTwoTo53 ==
  [value \in (AtTwoTo53 - Window)..(AtTwoTo53 + Window) |-> FnvOfNumber(value)]
FnvOfNaN == FnvOfNumber(NaN)
FnvOfSymbols ==
  [name \in Names \cup ObjectPrototypeNames \cup CollidingNames |->
     FnvOfCodes(TypeCodes("Symbol") \o Colon \o NameCodes(name))]

\* the fold of the string a leaf's hash is taken of
FnvOfLeaf(e) ==
  IF e.type = "Symbol" THEN FnvOfSymbols[e.name]
  ELSE IF e.value = NaN THEN FnvOfNaN
  ELSE IF IsBig(e.value) THEN FnvOfNumbersNearTwoTo53[e.value]
  ELSE FnvOfNumbers[e.value]

\* every hash of e's tree is a 32-bit word and the FNV-1a fold of its input
RECURSIVE HashesAreFnv(_)
RECURSIVE HashesAreFnvSeq(_, _)
HashesAreFnvSeq(as, i) ==
  IF i > Len(as) THEN TRUE ELSE HashesAreFnv(as[i]) /\ HashesAreFnvSeq(as, i + 1)
HashesAreFnv(e) ==
  /\ e.hash[1] \in 0..(Half - 1) /\ e.hash[2] \in 0..(Half - 1)
  /\ IF Len(e.args) = 0
     THEN e.hash = FnvOfLeaf(e)
     ELSE /\ e.hash = FnvFold(FnvBasis, <<FnvOfKinds[e.type]>> \o MapHash(e.args, 1), 1)
          /\ e.hash = combineHashes(<<fastHash(TypeCodes(e.type))>> \o MapHash(e.args, 1))
  /\ HashesAreFnvSeq(e.args, 1)

\* C28: fastHash and combineHashes return an integer in [0, 2^32), the FNV-1a
\* fold of their input in positional order (start 2166136261, xor each element
\* in, multiply by 16777619 modulo 2^32), and the hash of every Add, Mul and
\* Pow node is combineHashes of [fastHash(kind), hashes of its operands in order]
\* (every node the caller ever holds is the result of the call that made it)
C28_HashesAreFnv1a == HashesAreFnv(last.res)

\* a create call returns a nested node whose hash has the top bit set
C28_Witness ==
  /\ last.op \in {"Add", "Mul"}
  /\ Len(last.res.args) >= 2
  /\ \E i \in 1..Len(last.res.args) : Len(last.res.args[i].args) = 2
  /\ last.res.hash[1] >= 32768


C30_GetIdStable ==
  /\ \A name \in DOMAIN nameToId :
       /\ nameToId[name] \in DOMAIN idToName
       /\ idToName[nameToId[name]] = name
       /\ nameToId[name] < nextId
  /\ \A id \in DOMAIN idToName :
       /\ idToName[id] \in DOMAIN nameToId
       /\ nameToId[idToName[id]] = id
  /\ \A n1, n2 \in DOMAIN nameToId : nameToId[n1] = nameToId[n2] => n1 = n2
  /\ \A i \in 1..Len(stack) :
       stack[i].type = "Symbol" =>
         /\ stack[i].name \in DOMAIN nameToId
         /\ nameToId[stack[i].name] = stack[i].symbolId
  /\ last.op = "getId" =>
       /\ last.out.val \in DOMAIN idToName
       /\ last.out.val < nextId

\* a name is looked up again after another name was registered in between
C30_Witness ==
  /\ session = "building"
  /\ Len(stack) = 3
  /\ stack[1].name = stack[3].name
  /\ stack[2].name # stack[1].name
  /\ stack[1].symbolId = stack[3].symbolId
  /\ last.op = "getId"
  /\ nextId = 4

====
